---- MODULE Spec2Model ----
(***************************************************************************)
(* Batch orchestration of video_scene_detector.py: VideoProcessor's        *)
(* process_folder / process_video / _update_stats / summary, driven from   *)
(* MenuSystem.  The detection and splitting collaborators (scenedetect)    *)
(* and the clock (datetime.now) are the environment, as are the value of   *)
(* save_stats in the configuration, the outcome of writing the statistics  *)
(* file and a Ctrl-C of the host.                                          *)
(***************************************************************************)
EXTENDS Integers, Sequences, FiniteSets, TLC

\* ---------------------------------------------------------------- bounds
\* The clock datetime.now() takes values 0..MaxTime.
MaxTime == 1
\* process_folder is called only while the records kept in stats stay <= MaxRecords.
MaxRecords == 2
\* The largest number of scenes detect() returns in the model.
MaxScenes == 3
\* The largest os.cpu_count() of the model.
MaxCpu == 5

\* ------------------------------------------------------- program constants
\* min(os.cpu_count() or 1, 4)
HardCap == 4

\* config['statistics']['save_stats'] as line 330 can find it: the value
\* _create_default_config writes and the value _edit_statistics_settings
\* writes for 'y'.
SaveStatsValues == {"no", "True"}

\* os.cpu_count() returns None (modelled as 0) or a positive count.
CpuCounts == {0, 1, 2, MaxCpu}

\* len(scenes) as returned by detect().
SceneCounts == {0, MaxScenes}

\* ------------------------------------------------------------ file names
mp4 == <<".", "m", "p", "4">>
avi == <<".", "a", "v", "i">>
mov == <<".", "m", "o", "v">>
mkv == <<".", "m", "k", "v">>

\* self.supported_formats
supported_formats == {mp4, avi, mov, mkv}

\* str.lower(), character by character
LowerChar(c) ==
  CASE c = "A" -> "a" [] c = "I" -> "i" [] c = "K" -> "k" [] c = "M" -> "m"
    [] c = "O" -> "o" [] c = "P" -> "p" [] c = "T" -> "t" [] c = "V" -> "v"
    [] c = "X" -> "x" [] OTHER -> c

RECURSIVE Lower(_)
Lower(s) == IF s = <<>> THEN <<>> ELSE <<LowerChar(Head(s))>> \o Lower(Tail(s))

\* A directory entry: its stem and its Path.suffix.
File(stem, suffix) == [stem |-> stem, suffix |-> suffix]

\* The directory listings (folder_path.iterdir()) of the model.
Folders ==
  { <<>>,
    << File("c", <<".", "t", "x", "t">>), File("n", <<".", "m", "p", "3">>) >>,
    << File("a", mp4), File("b", <<".", "A", "V", "I">>),
       File("c", <<".", "t", "x", "t">>) >>,
    << File("a", mp4), File("n", <<".", "m", "p", "3">>),
       File("b", <<".", "A", "V", "I">>), File("e", <<".", "M", "k", "v">>) >> }

\* get_video_files: the entries whose lower-cased suffix is supported.
IsVideoCaseSensitive(f) == f.suffix \in supported_formats

IsVideo(f) == Lower(f.suffix) \in supported_formats

get_video_files(folder_path) == SelectSeq(folder_path, IsVideo)

\* ------------------------------------------------------------------ state
VARIABLES
  stats,              \* self.stats
  now,                \* the last value datetime.now() returned (taken as
                      \* non-decreasing)
  cpu_count,          \* os.cpu_count() of the host, 0 for None
  max_workers,        \* max_workers of the current executor
  call,               \* the arguments of the process_folder call in progress,
                      \* or of the call an exception left
  jobs,               \* the futures of the call in progress, by submission index
  split_calls,        \* the jobs for which split_video_ffmpeg was invoked
  main_pc,            \* the main thread: "menu", "submitted" (every file
                      \* is submitted, line 300), "pool" (the as_completed
                      \* loop), "shutdown" (leaving the with block on a
                      \* KeyboardInterrupt) or "exited"
  submitted,          \* the number of futures the last call submitted
  executor_created,   \* the last call created its ThreadPoolExecutor
  no_files_reported,  \* the last call printed "No video files found ..."
  summary,            \* what _print_processing_summary printed in the last call
  raised,             \* the exception that left the last call
  export,             \* the value of config['statistics']['save_stats'] read
                      \* at line 330 of the last call and what
                      \* _save_statistics did, if the call came that far
  stats_lock,         \* self.stats_lock: "free", or "main" while the main
                      \* thread holds it
  completed,          \* the futures of the call in the order they finished
  pre,                \* how many futures had finished when as_completed was
                      \* called
  stats_at_start,     \* self.stats as it was when the last call started
  single              \* what _process_single_file did since the last
                      \* process_folder call: "none", "rejected", or the
                      \* status of the result process_video returned

vars == <<stats, now, cpu_count, max_workers, call, jobs, split_calls, main_pc,
          submitted, executor_created, no_files_reported, summary, raised, stats_at_start,
          export, stats_lock, completed, pre, single>>

EmptyDict == [k \in {} |-> 0]

\* VideoProcessor.__init__: self.stats
InitStats ==
  [ total_files_processed |-> 0,
    total_scenes_detected |-> 0,
    failed_files |-> 0,
    processing_times |-> <<>>,
    files_processed |-> <<>> ]

\* selected_indices: None, or a list of 0-based indices
NoSelection == [given |-> FALSE, idx |-> <<>>]
Selection(idx) == [given |-> TRUE, idx |-> idx]

\* Python truthiness of selected_indices: None and [] are false.
TruthyNotNone(selected_indices) == selected_indices.given

Truthy(selected_indices) == selected_indices.given /\ Len(selected_indices.idx) > 0

\* [video_files[i] for i in selected_indices if 0 <= i < len(video_files)]
InRange(i, n) == 0 <= i /\ i < n

RECURSIVE SelectFiles(_, _)
SelectFiles(video_files, idx) ==
  IF idx = <<>> THEN <<>>
  ELSE (IF InRange(Head(idx), Len(video_files))
          THEN << video_files[Head(idx) + 1] >> ELSE <<>>)
       \o SelectFiles(video_files, Tail(idx))

\* The files process_folder submits.
FilesToProcess(folder_path, selected_indices) ==
  IF Truthy(selected_indices)
    THEN SelectFiles(get_video_files(folder_path), selected_indices.idx)
    ELSE get_video_files(folder_path)

\* max_workers = min(os.cpu_count() or 1, 4)
MaxWorkers(cpu) ==
  LET c == IF cpu = 0 THEN 1 ELSE cpu IN IF c < HardCap THEN c ELSE HardCap

\* A future just submitted: process_video has not started.  bare holds the
\* source lines at which the job changed its bar without holding
\* self.progress_lock.
QueuedJob(f) ==
  [ pc |-> "queued", file |-> f, file_stats |-> EmptyDict, scenes |-> 0,
    n |-> 0, closed |-> FALSE, threw |-> FALSE, ret |-> EmptyDict, bare |-> {} ]

NoSummary == EmptyDict

\* Line 330 was not reached.
NoExport == EmptyDict

\* No process_folder call is active: its arguments and locals do not exist.
NoCall == [kind |-> "none", folder |-> <<>>, selected_indices |-> NoSelection]

\* The process_video executions in flight.
Executing == { j \in DOMAIN jobs : jobs[j].pc \in {"split", "finally"} }

Init ==
  /\ stats = InitStats
  /\ now = 0
  /\ cpu_count \in CpuCounts
  /\ max_workers = 0
  /\ call = NoCall
  /\ jobs = <<>>
  /\ split_calls = {}
  /\ main_pc = "menu"
  /\ submitted = 0
  /\ executor_created = FALSE
  /\ no_files_reported = FALSE
  /\ summary = NoSummary
  /\ raised = "none"
  /\ stats_at_start = InitStats
  /\ export = NoExport
  /\ stats_lock = "free"
  /\ completed = <<>>
  /\ pre = 0
  /\ single = "none"

\* process_folder up to the submission of every file (lines 268-300).
ProcessFolder(kind, folder_path, selected_indices) ==
  LET video_files == FilesToProcess(folder_path, selected_indices) IN
  /\ main_pc = "menu"
  /\ stats_at_start' = stats
  /\ summary' = NoSummary
  /\ raised' = "none"
  /\ export' = NoExport
  /\ single' = "none"
  /\ UNCHANGED <<stats, now, cpu_count, split_calls, stats_lock, completed, pre>>
  /\ IF get_video_files(folder_path) = <<>>
       THEN /\ no_files_reported' = TRUE
            /\ executor_created' = FALSE
            /\ submitted' = 0
            /\ UNCHANGED <<max_workers, main_pc, jobs, call>>
       ELSE /\ stats.total_files_processed + Len(video_files) <= MaxRecords
            /\ call' = [kind |-> kind, folder |-> folder_path,
                        selected_indices |-> selected_indices]
            /\ submitted' = Len(video_files)
            /\ no_files_reported' = FALSE
            /\ executor_created' = TRUE
            /\ max_workers' = MaxWorkers(cpu_count)
            /\ jobs' = [i \in 1..Len(video_files) |-> QueuedJob(video_files[i])]
            /\ main_pc' = "submitted"

\* The worker threads of the executor run: in the as_completed loop, and in
\* ThreadPoolExecutor.__exit__, which is shutdown(wait=True).
PoolRunning == main_pc \in {"submitted", "pool", "shutdown"}

\* ThreadPoolExecutor(max_workers=max_workers): a queued future starts only
\* on a free worker thread, and at most max_workers threads exist.
WorkerFreeAlways == TRUE

WorkerFree == Cardinality(Executing) < max_workers

\* ---------------------------------------------------------- process_video
\* The bar is changed under `with self.progress_lock` by
\* _create_progress_bar (line 147) and _update_progress (line 160), which
\* process_video calls at line 176 and _split_video_with_progress at lines
\* 256 and 259.  The calls of file_progress.update and file_progress.close
\* in process_video itself (lines 180, 184, 205, 222, 223) take no lock.
LockedSites == {176, 256, 259}

HoldsProgressLock(line) == line \in LockedSites

\* The lines of `sites` that change the bar without the lock.
Bare(sites) == { l \in sites : ~HoldsProgressLock(l) }

\* file_stats as process_video creates it (lines 166-172).
NewFileStats(f, start_time) ==
  [ filename |-> f, start_time |-> start_time, scenes_detected |-> 0,
    status |-> "failed", error |-> "None" ]

\* `if scenes:` (line 187): a non-empty list is split.
ShouldSplitAlways(k) == k >= 0

ShouldSplit(k) == k > 0

\* file_stats.update on the three outcomes (lines 198-202, 207-210, 215-218).
MarkSuccess(fs, num_scenes) ==
  [fs EXCEPT !.scenes_detected = num_scenes, !.status = "success", !.error = "None"]

MarkWarning(fs) == [fs EXCEPT !.status = "warning", !.error = "No scenes detected"]

MarkError(fs, e) == [fs EXCEPT !.status = "error", !.error = e]

\* The value returned from the except clause (line 219).
ErrorReturnUncounted(fs) == [file_stats |-> fs]

ErrorReturnTimed(fs) == [failed_files |-> 1, processing_time |-> 0, file_stats |-> fs]

ErrorReturn(fs) == [failed_files |-> 1, file_stats |-> fs]

\* The value returned after the try statement (lines 226-235).
NormalReturn(fs, end_time) ==
  LET processing_time == end_time - fs.start_time
      done == [k \in DOMAIN fs \cup {"end_time", "processing_time"} |->
                 IF k = "end_time" THEN end_time
                 ELSE IF k = "processing_time" THEN processing_time
                 ELSE fs[k]]
  IN [ total_scenes_detected |-> fs.scenes_detected,
       processing_time |-> processing_time,
       file_stats |-> done ]

\* A worker thread of the executor takes the next queued future and runs
\* process_video up to the return of detect (lines 165-187, 203-218): the
\* start time is read, the bar is created and advanced by 10, and
\* _detect_scenes_optimized returns or raises.  The work queue is first in,
\* first out, and at most max_workers threads exist.  The clock of the model
\* advances while a file is processed, not between the files.
StartVideo(j) ==
  LET fs == NewFileStats(jobs[j].file, now) IN
  /\ PoolRunning
  /\ jobs[j].pc = "queued"
  /\ \A i \in 1..(j - 1) : jobs[i].pc # "queued"
  /\ WorkerFree
  /\ \/ \* detect() raises: the except clause of process_video
        jobs' = [jobs EXCEPT ![j] =
          [@ EXCEPT !.pc = "finally", !.threw = TRUE, !.n = 0 + 10,
                    !.bare = Bare({176, 180}),
                    !.file_stats = MarkError(fs, "exception")]]
     \/ \* detect() returns k scenes
        \E k \in SceneCounts :
          jobs' = [jobs EXCEPT ![j] =
            IF ShouldSplit(k)
              THEN [@ EXCEPT !.pc = "split", !.scenes = k, !.n = 0 + 10 + 40,
                             !.bare = Bare({176, 180, 184}),
                             !.file_stats = fs]
              ELSE [@ EXCEPT !.pc = "finally", !.scenes = k, !.n = 0 + 10 + 40 + 90,
                             !.bare = Bare({176, 180, 184, 205}),
                             !.file_stats = MarkWarning(fs)]]
  /\ UNCHANGED <<stats, now, cpu_count, single, max_workers, call, split_calls, main_pc,
                 submitted, executor_created, no_files_reported, summary, raised,
                 stats_at_start, export, stats_lock, completed, pre>>

\* _split_video_with_progress (lines 248-266) and the update after it
\* (lines 195-202): the bar advances by 40 in all, then split_video_ffmpeg runs.
SplitVideo(j) ==
  /\ PoolRunning
  /\ jobs[j].pc = "split"
  /\ split_calls' = split_calls \cup {j}
  /\ \/ \* split_video_ffmpeg returns
        jobs' = [jobs EXCEPT ![j] =
          [@ EXCEPT !.pc = "finally", !.n = @ + 40,
                    !.bare = @ \cup Bare({256, 259}),
                    !.file_stats = MarkSuccess(@, jobs[j].scenes)]]
     \/ \* split_video_ffmpeg raises
        jobs' = [jobs EXCEPT ![j] =
          [@ EXCEPT !.pc = "finally", !.n = @ + 40, !.threw = TRUE,
                    !.bare = @ \cup Bare({256, 259}),
                    !.file_stats = MarkError(@, "exception")]]
  /\ UNCHANGED <<stats, now, cpu_count, single, max_workers, call, main_pc,
                 submitted, executor_created, no_files_reported, summary, raised,
                 stats_at_start, export, stats_lock, completed, pre>>

\* file_progress.update(100 - file_progress.n) (line 222): the step that
\* completes the bar from n.
RemainingClamped(n) == IF n > 100 THEN 0 ELSE 100 - n

Remaining(n) == 100 - n

\* The finally clause and the return of process_video (lines 219-235).
FinishVideo(j) ==
  /\ PoolRunning
  /\ jobs[j].pc = "finally"
  /\ IF jobs[j].file_stats.status = "error"
       THEN /\ jobs' = [jobs EXCEPT ![j] =
                 [@ EXCEPT !.pc = "done", !.n = @ + Remaining(@), !.closed = TRUE,
                           !.bare = @ \cup Bare({222, 223}),
                           !.ret = ErrorReturn(jobs[j].file_stats)]]
            /\ now' = now
       ELSE \E t \in now..MaxTime :
            /\ now' = t
            /\ jobs' = [jobs EXCEPT ![j] =
                 [@ EXCEPT !.pc = "done", !.n = @ + Remaining(@), !.closed = TRUE,
                           !.bare = @ \cup Bare({222, 223}),
                           !.ret = NormalReturn(jobs[j].file_stats, t)]]
  /\ completed' = Append(completed, j)
  /\ UNCHANGED <<stats, cpu_count, single, max_workers, call, split_calls, main_pc,
                 submitted, executor_created, no_files_reported, summary, raised,
                 stats_at_start, export, stats_lock, pre>>

\* ---------------------------------------------------------- _update_stats
\* Lines 130-137: the four updates made for the keys stats_update has.
UpdateStatsBody(s, stats_update) ==
  LET has(k) == k \in DOMAIN stats_update IN
  [ s EXCEPT
      !.total_scenes_detected =
        IF has("total_scenes_detected") THEN @ + stats_update.total_scenes_detected
        ELSE @,
      !.failed_files =
        IF has("failed_files") THEN @ + stats_update.failed_files ELSE @,
      !.processing_times =
        IF has("processing_time") THEN Append(@, stats_update.processing_time)
        ELSE @,
      !.files_processed =
        IF has("file_stats") THEN Append(@, stats_update.file_stats) ELSE @ ]

\* Line 138: self.stats['total_files_processed'] += 1
CountFile(s) == [s EXCEPT !.total_files_processed = @ + 1]

\* _update_stats as a whole (lines 127-138).
UpdateStats(s, stats_update) == CountFile(UpdateStatsBody(s, stats_update))

\* Line 138 belongs to the block of `with self.stats_lock:` (line 129).
IncrementOutsideWith == FALSE

IncrementInsideWith == TRUE

\* concurrent.futures.as_completed(future_to_file) is called (line 303).  It
\* collects the futures that have finished by now in a set; the others
\* notify its waiter when they finish.
AsCompleted ==
  /\ main_pc = "submitted"
  /\ main_pc' = "pool"
  /\ pre' = Len(completed)
  /\ UNCHANGED <<stats, now, cpu_count, single, max_workers, call, jobs, split_calls,
                 submitted, executor_created, no_files_reported, summary, raised,
                 stats_at_start, export, stats_lock, completed>>

\* The positions in `completed` of the futures as_completed has not yielded.
Unyielded == { i \in DOMAIN completed : jobs[completed[i]].pc = "done" }

\* The future as_completed yields next: the futures that had finished when
\* it was called come first, in the iteration order of a set of futures,
\* which is any order; the others follow in the order they finished.
YieldsNext(j) ==
  \E i \in Unyielded :
    /\ completed[i] = j
    /\ IF \E k \in Unyielded : k <= pre
         THEN i <= pre
         ELSE \A k \in Unyielded : i <= k

\* One turn of the as_completed loop (lines 303-307): the future yielded
\* next gives its result to _update_stats, which takes stats_lock and makes
\* the updates of lines 130-137.
RecordResult(j) ==
  /\ main_pc = "pool"
  /\ jobs[j].pc = "done"
  /\ YieldsNext(j)
  /\ \A i \in DOMAIN jobs : jobs[i].pc # "recording"
  /\ stats_lock = "free"
  /\ stats' = UpdateStatsBody(stats, jobs[j].ret)
  /\ stats_lock' = IF IncrementInsideWith THEN "main" ELSE "free"
  /\ jobs' = [jobs EXCEPT ![j].pc = "recording"]
  /\ UNCHANGED <<now, cpu_count, single, max_workers, call, split_calls, main_pc,
                 submitted, executor_created, no_files_reported, summary, raised,
                 stats_at_start, export, completed, pre>>

\* The end of _update_stats (line 138): the file is counted and the with
\* block is left, which releases stats_lock.
CountResult(j) ==
  /\ main_pc = "pool"
  /\ jobs[j].pc = "recording"
  /\ stats' = CountFile(stats)
  /\ stats_lock' = "free"
  /\ jobs' = [jobs EXCEPT ![j].pc = "recorded"]
  /\ UNCHANGED <<now, cpu_count, single, max_workers, call, split_calls, main_pc,
                 submitted, executor_created, no_files_reported, summary, raised,
                 stats_at_start, export, completed, pre>>

\* ------------------------------------------------ _print_processing_summary
RECURSIVE Sum(_)
Sum(seq) == IF seq = <<>> THEN 0 ELSE Head(seq) + Sum(Tail(seq))

\* A quotient of the program, kept exact.
Quot(num, den) == [num |-> num, den |-> den]

\* sum(times) / len(times) if times else 0
AvgTime(times) == IF Len(times) > 0 THEN Quot(Sum(times), Len(times)) ELSE Quot(0, 1)

\* The four lines printed before the success rate is computed (lines 353-362).
SummaryHead(s) ==
  [ total_files |-> s.total_files_processed,
    total_scenes |-> s.total_scenes_detected,
    failed_files |-> s.failed_files,
    avg_time |-> AvgTime(s.processing_times) ]

\* (total_files - failed_files) / total_files * 100 (line 363)
SuccessRate(total_files, failed_files) ==
  Quot((total_files - failed_files) * 100, total_files)

\* Line 363 raises ZeroDivisionError when total_files is 0.
SummaryRaisesAllFailed(s) == s.total_files_processed - s.failed_files = 0

SummaryRaises(s) == s.total_files_processed = 0

PrintSummary(s) ==
  IF SummaryRaises(s) THEN SummaryHead(s)
  ELSE [k \in DOMAIN SummaryHead(s) \cup {"success_rate"} |->
          IF k = "success_rate"
            THEN SuccessRate(s.total_files_processed, s.failed_files)
            ELSE SummaryHead(s)[k]]

\* ConfigParser.getboolean: the lower-cased value is looked up among the
\* spellings of true and false.
GetBooleanNonEmpty(value) == value # ""

GetBoolean(value) == value \in {"1", "yes", "true", "on", "True", "Yes", "On"}

\* _save_statistics (lines 365-375): the statistics are written, or the
\* exception of open or json.dump is caught and logged.
SaveOutcomes == {"saved", "failed"}

\* Lines 329-331: _save_statistics is called when save_stats reads as true.
SaveStatistics(save_stats) ==
  IF GetBoolean(save_stats)
    THEN { [save_stats |-> save_stats, outcome |-> o] : o \in SaveOutcomes }
    ELSE { [save_stats |-> save_stats, outcome |-> "skipped"] }

\* The executor is left once every future was handled; the summary is
\* printed (lines 322-327) and, when save_stats is set, the statistics are
\* saved (lines 329-331).  An exception of the summary leaves process_folder
\* and the menu loop; main() catches it and exits with code 1.
FinishFolder ==
  /\ main_pc = "pool"
  /\ \A j \in DOMAIN jobs : jobs[j].pc = "recorded"
  /\ summary' = PrintSummary(stats)
  /\ IF SummaryRaises(stats)
       THEN /\ raised' = "ZeroDivisionError"
            /\ main_pc' = "exited"
            /\ UNCHANGED <<call, export>>
       ELSE /\ raised' = "none"
            /\ main_pc' = "menu"
            /\ call' = NoCall
            /\ \E save_stats \in SaveStatsValues :
                 export' \in SaveStatistics(save_stats)
  /\ jobs' = <<>>
  /\ max_workers' = 0
  /\ split_calls' = {}
  /\ completed' = <<>>
  /\ pre' = 0
  /\ UNCHANGED <<stats, now, cpu_count, single, submitted, executor_created,
                 no_files_reported, stats_at_start, stats_lock>>

\* Ctrl-C while the main thread is in the as_completed loop (lines 303-317):
\* KeyboardInterrupt is no Exception, so neither handler (lines 308, 319)
\* catches it; it leaves the loop and the with statement (line 290) calls
\* executor.shutdown(wait=True), without cancel_futures.  The interrupt
\* arrives while the main thread waits for the next future.
Interrupt ==
  /\ main_pc = "pool"
  /\ \A j \in DOMAIN jobs : jobs[j].pc # "recording"
  /\ main_pc' = "shutdown"
  /\ UNCHANGED <<stats, now, cpu_count, single, max_workers, call, jobs, split_calls,
                 submitted, executor_created, no_files_reported, summary, raised,
                 stats_at_start, export, stats_lock, completed, pre>>

\* shutdown(wait=True) returns when the worker threads have ended, which they
\* do once the work queue is empty; the KeyboardInterrupt then leaves
\* process_folder (lines 322-324) and main (lines 553-555), and the process
\* ends.
ShutdownExit ==
  /\ main_pc = "shutdown"
  /\ \A j \in DOMAIN jobs : jobs[j].pc \in {"done", "recorded"}
  /\ main_pc' = "exited"
  /\ raised' = "KeyboardInterrupt"
  /\ jobs' = <<>>
  /\ max_workers' = 0
  /\ split_calls' = {}
  /\ completed' = <<>>
  /\ pre' = 0
  /\ UNCHANGED <<stats, now, cpu_count, single, call, submitted, executor_created,
                 no_files_reported, summary, stats_at_start, export,
                 stats_lock>>

\* ------------------------------------------------------------- MenuSystem
\* The comma-separated numbers a user types in "Select specific videos":
\* in range, 0, beyond the listing, repeated, and none in range.
MenuSelections ==
  { <<1>>, <<0>>, <<1, 5>>, <<2, 1>>, <<1, 1>>, <<0, 4>> }

\* selected_indices = [int(x.strip()) - 1 for x in selection.split(',')]
ToIndices(selection) == [i \in DOMAIN selection |-> selection[i] - 1]

\* MenuSystem._process_folder (lines 442-454)
MenuProcessFolder ==
  \E folder_path \in Folders : ProcessFolder("folder", folder_path, NoSelection)

\* MenuSystem._process_selected_files (lines 456-486)
MenuProcessSelected ==
  \E folder_path \in Folders, selection \in MenuSelections :
    /\ get_video_files(folder_path) # <<>>
    /\ ProcessFolder("selected", folder_path, Selection(ToIndices(selection)))

\* What "Process single video file" is given: no path, the path of a file
\* that does not exist, a file that is no video, and a video.
SingleFileInputs ==
  { [given |-> FALSE, exists |-> FALSE, file |-> File("", <<>>)],
    [given |-> TRUE, exists |-> FALSE, file |-> File("a", mp4)],
    [given |-> TRUE, exists |-> TRUE, file |-> File("c", <<".", "t", "x", "t">>)],
    [given |-> TRUE, exists |-> TRUE, file |-> File("s", <<".", "M", "O", "V">>)] }

\* process_video(video_path) run to its return on the calling thread, from
\* the clock reading start_time (lines 163-235): the results it can return,
\* each with the clock reading it leaves.
ProcessVideoResults(video_path, start_time) ==
  LET fs == NewFileStats(video_path, start_time) IN
  { [ret |-> ErrorReturn(MarkError(fs, "exception")), now |-> start_time] }
  \cup { [ret |-> NormalReturn(IF ShouldSplit(k) THEN MarkSuccess(fs, k)
                                                  ELSE MarkWarning(fs), t),
           now |-> t] : k \in SceneCounts, t \in start_time..MaxTime }

\* Line 440: the value process_video returns is dropped, self.stats stays.
SingleFileStatsRecorded(s, stats_update) == UpdateStats(s, stats_update)

SingleFileStats(s, stats_update) == s

\* MenuSystem._process_single_file (lines 424-440)
ProcessSingleFile ==
  /\ main_pc = "menu"
  /\ \E in \in SingleFileInputs :
       IF ~in.given \/ ~in.exists \/ Lower(in.file.suffix) \notin supported_formats
         THEN /\ single' = "rejected"
              /\ UNCHANGED <<stats, now>>
         ELSE \E r \in ProcessVideoResults(in.file, now) :
              /\ single' = r.ret.file_stats.status
              /\ now' = r.now
              /\ stats' = SingleFileStats(stats, r.ret)
  /\ UNCHANGED <<cpu_count, max_workers, call, jobs, split_calls, main_pc,
                 submitted, executor_created, no_files_reported, summary, raised,
                 stats_at_start, export, stats_lock, completed, pre>>

\* process_folder(folder_path, []) (line 268): a caller hands over an empty
\* list.  The menu never does: ''.split(',') has one element.
CallProcessFolder ==
  \E folder_path \in Folders : ProcessFolder("call", folder_path, Selection(<<>>))

Next ==
  \/ MenuProcessFolder
  \/ MenuProcessSelected
  \/ CallProcessFolder
  \/ ProcessSingleFile
  \/ \E j \in DOMAIN jobs : StartVideo(j)
  \/ \E j \in DOMAIN jobs : SplitVideo(j)
  \/ \E j \in DOMAIN jobs : FinishVideo(j)
  \/ \E j \in DOMAIN jobs : RecordResult(j)
  \/ \E j \in DOMAIN jobs : CountResult(j)
  \/ AsCompleted
  \/ FinishFolder
  \/ Interrupt
  \/ ShutdownExit

Spec == Init /\ [][Next]_vars

\* The threads of the executor run the work they took, process_video
\* returns once its collaborators do, and the main thread runs the
\* as_completed loop and what follows it.
FairSpec ==
  /\ Spec
  /\ WF_vars(\E j \in DOMAIN jobs : StartVideo(j))
  /\ WF_vars(\E j \in DOMAIN jobs : SplitVideo(j))
  /\ WF_vars(\E j \in DOMAIN jobs : FinishVideo(j))
  /\ WF_vars(\E j \in DOMAIN jobs : RecordResult(j))
  /\ WF_vars(\E j \in DOMAIN jobs : CountResult(j))
  /\ WF_vars(AsCompleted)
  /\ WF_vars(FinishFolder)
  /\ WF_vars(ShutdownExit)

\* ================================================================ claims
\* The states of a batch run.
InPool == main_pc \in {"submitted", "pool"}

Recorded == { j \in DOMAIN jobs : jobs[j].pc = "recorded" }

\* The jobs whose result went through lines 130-137 of _update_stats.
Appended == { j \in DOMAIN jobs : jobs[j].pc \in {"recording", "recorded"} }

Returned == { j \in DOMAIN jobs : jobs[j].pc \in {"done", "recording", "recorded"} }

\* Every future of the run was handled by the as_completed loop.
RunSettled == InPool /\ Recorded = DOMAIN jobs

\* process_folder ran its pool and returned to the menu.
RunReturned == main_pc = "menu" /\ executor_created

\* The records the run in progress (or the last run) appended to files_processed.
RunRecords ==
  SubSeq(stats.files_processed, Len(stats_at_start.files_processed) + 1,
         Len(stats.files_processed))

RunTimes ==
  SubSeq(stats.processing_times, Len(stats_at_start.processing_times) + 1,
         Len(stats.processing_times))

Occurrences(seq, x) == Cardinality({ i \in DOMAIN seq : seq[i] = x })

\* C1 (as claimed): once a run with at least one job settles,
\* total_files_processed equals the number of jobs submitted in that run and
\* equals len(files_processed) -- also for a second run on the same
\* VideoProcessor.
C1_CompletedEqualsSubmitted ==
  ((RunSettled \/ RunReturned) /\ submitted >= 1) =>
    /\ stats.total_files_processed = submitted
    /\ stats.total_files_processed = Len(stats.files_processed)

\* C2: failure isolation.  A job whose detection or splitting raised returns
\* exactly one result, with status error and counted in failed_files; the
\* records of the run are exactly the results of the jobs handled so far, one
\* per job; a run that submitted jobs never ends in an exception of a job
\* (only a KeyboardInterrupt of the host ends it), and it returns only after
\* every submitted job was recorded.
C2_FailureIsolation ==
  /\ \A j \in Returned :
       jobs[j].threw =>
         /\ jobs[j].ret.file_stats.status = "error"
         /\ "failed_files" \in DOMAIN jobs[j].ret
         /\ jobs[j].ret.failed_files = 1
  /\ InPool =>
       /\ Len(RunRecords) = Cardinality(Appended)
       /\ \A j \in Appended :
            Occurrences(RunRecords, jobs[j].ret.file_stats) =
              Cardinality({ i \in Appended : jobs[i].ret.file_stats = jobs[j].ret.file_stats })
       /\ stats.failed_files - stats_at_start.failed_files =
            Cardinality({ j \in Appended : jobs[j].threw })
       /\ raised = "none"
  /\ (RunReturned /\ submitted >= 1) =>
       /\ Len(RunRecords) = submitted
       /\ raised = "none"
  /\ (main_pc = "exited" /\ raised # "KeyboardInterrupt") => submitted = 0

\* C2 witness: a run in which one job raised and was recorded as an error
\* while a sibling was recorded as a success.
C2_Witness ==
  /\ RunSettled
  /\ \E i, j \in DOMAIN jobs :
       /\ jobs[i].threw /\ jobs[i].ret.file_stats.status = "error"
       /\ ~jobs[j].threw /\ jobs[j].ret.file_stats.status = "success"
  /\ stats.failed_files - stats_at_start.failed_files = 1

\* C3: max_workers is min(cpu count or 1, 4), at least 1, and at no instant
\* of a run are more than max_workers process_video executions in flight.
C3_BoundedConcurrency ==
  PoolRunning =>
    /\ max_workers >= 1
    /\ max_workers <= HardCap
    /\ cpu_count >= 1 => max_workers <= cpu_count
    /\ \/ max_workers = HardCap
       \/ max_workers = cpu_count
       \/ cpu_count = 0 /\ max_workers = 1
    /\ Cardinality(Executing) <= max_workers

\* C3 witness: a batch larger than max_workers with every worker busy and a
\* job still waiting in the queue.
C3_Witness ==
  /\ InPool
  /\ Len(jobs) > max_workers
  /\ Cardinality(Executing) = max_workers
  /\ \E j \in DOMAIN jobs : jobs[j].pc = "queued"

\* C4 (as claimed): every result carries an end time and a processing
\* duration >= 0 equal to end time - start time, on the error outcome too.
C4_DurationOnEveryResult ==
  \A j \in Returned :
    /\ "end_time" \in DOMAIN jobs[j].ret.file_stats
    /\ "processing_time" \in DOMAIN jobs[j].ret
    /\ jobs[j].ret.processing_time >= 0
    /\ jobs[j].ret.processing_time =
         jobs[j].ret.file_stats.end_time - jobs[j].ret.file_stats.start_time

\* C5 (as claimed): a summary produced with total_files_processed = 0 prints
\* a success rate of exactly 0 and raises nothing.
C5_SuccessRateZero ==
  ("total_files" \in DOMAIN summary /\ summary.total_files = 0) =>
    /\ raised = "none"
    /\ "success_rate" \in DOMAIN summary
    /\ summary.success_rate.num = 0

\* C6 (as claimed): a call with selected indices of which none survives the
\* filter reports "no files" and returns without starting the pool and
\* without raising.
C6_EmptySelectionReturns ==
  ( /\ call.kind # "none"
    /\ call.selected_indices.given
    /\ FilesToProcess(call.folder, call.selected_indices) = <<>> ) =>
    /\ no_files_reported
    /\ ~executor_created
    /\ raised # "ZeroDivisionError"

\* C7: a job whose detection returned no scene ends with status warning and
\* scenes_detected = 0, is returned as a completed and not as a failed result,
\* and split_video_ffmpeg is invoked only for jobs whose detection returned
\* a non-empty list.
C7_NoScenesIsWarning ==
  /\ \A j \in split_calls : j \in DOMAIN jobs /\ jobs[j].scenes > 0
  /\ \A j \in DOMAIN jobs :
       (jobs[j].pc \in {"finally", "done", "recording", "recorded"} /\ ~jobs[j].threw
          /\ jobs[j].scenes = 0) =>
         /\ jobs[j].file_stats.status = "warning"
         /\ jobs[j].file_stats.scenes_detected = 0
         /\ j \notin split_calls
         /\ j \in Returned =>
              /\ "failed_files" \notin DOMAIN jobs[j].ret
              /\ jobs[j].ret.total_scenes_detected = 0
              /\ jobs[j].ret.file_stats.status = "warning"
  /\ InPool =>
       /\ stats.total_files_processed - stats_at_start.total_files_processed =
            Cardinality(Recorded)
       /\ stats.failed_files - stats_at_start.failed_files =
            Cardinality({ j \in Appended : jobs[j].ret.file_stats.status = "error" })

\* C7 witness: a job without scenes was recorded as a warning, and a sibling
\* with scenes was split.
C7_Witness ==
  /\ InPool
  /\ \E i, j \in DOMAIN jobs :
       /\ jobs[i].pc = "recorded" /\ jobs[i].scenes = 0 /\ ~jobs[i].threw
       /\ i \notin split_calls
       /\ j \in split_calls
  /\ stats.failed_files = stats_at_start.failed_files

\* The numbers typed in the menu, from the indices handed to process_folder.
Typed(selected_indices) == [i \in DOMAIN selected_indices.idx |-> selected_indices.idx[i] + 1]

RECURSIVE PickTyped(_, _)
PickTyped(files, typed) ==
  IF typed = <<>> THEN <<>>
  ELSE (IF 1 <= Head(typed) /\ Head(typed) <= Len(files)
          THEN << files[Head(typed)] >> ELSE <<>>) \o PickTyped(files, Tail(typed))

JobFiles == [j \in DOMAIN jobs |-> jobs[j].file]

\* C8 (as claimed): of the numbers typed in the menu exactly those between 1
\* and the number of listed videos are submitted, and no error is raised.
C8_SelectionFiltered ==
  call.kind = "selected" =>
    /\ raised # "ZeroDivisionError"
    /\ InPool =>
         JobFiles = PickTyped(get_video_files(call.folder), Typed(call.selected_indices))

\* Case-insensitive equality of a suffix and an extension of the allow-list,
\* by the upper-case letters.
UpperOf(c) ==
  CASE c = "a" -> "A" [] c = "i" -> "I" [] c = "k" -> "K" [] c = "m" -> "M"
    [] c = "o" -> "O" [] c = "p" -> "P" [] c = "v" -> "V" [] OTHER -> c

SameIgnoringCase(s, e) ==
  /\ Len(s) = Len(e)
  /\ \A i \in DOMAIN s : s[i] = e[i] \/ s[i] = UpperOf(e[i])

Allowed(f) == \E e \in {mp4, avi, mov, mkv} : SameIgnoringCase(f.suffix, e)

\* C9: a run without selection submits exactly the files of the folder whose
\* extension is .mp4, .avi, .mov or .mkv in any letter case, in listing order.
C9_SubmitsExactlyVideos ==
  (InPool /\ call.kind = "folder") =>
    /\ JobFiles = SelectSeq(call.folder, Allowed)
    /\ submitted = Cardinality({ i \in DOMAIN call.folder : Allowed(call.folder[i]) })

\* C9 witness: a run without selection over a folder with an upper-case
\* video suffix and a file that is no video.
C9_Witness ==
  /\ InPool /\ call.kind = "folder"
  /\ \E i \in DOMAIN call.folder : ~Allowed(call.folder[i])
  /\ \E j \in DOMAIN jobs : jobs[j].file.suffix \notin supported_formats
  /\ Len(jobs) = 2

RECURSIVE SumScenes(_)
SumScenes(records) ==
  IF records = <<>> THEN 0
  ELSE Head(records).scenes_detected + SumScenes(Tail(records))

\* C10 (as claimed): after a run with at least one job the summary reports
\* the number of jobs of the run, the number of them that ended in error, the
\* sum of their segments and the mean of their recorded durations.
C10_SummaryOfRun ==
  (RunReturned /\ submitted >= 1) =>
    /\ summary.total_files = submitted
    /\ summary.failed_files =
         Cardinality({ i \in DOMAIN RunRecords : RunRecords[i].status = "error" })
    /\ summary.total_scenes = SumScenes(RunRecords)
    /\ summary.avg_time.num * Len(RunTimes) = Sum(RunTimes) * summary.avg_time.den
    /\ (RunTimes = <<>> => summary.avg_time.num = 0)

\* The whole summary, the success rate included, was printed.
SummaryPrinted == "success_rate" \in DOMAIN summary

\* C11: nothing of the summary is printed while jobs of the run are not yet
\* recorded, and every run that submitted at least one job and is not
\* interrupted from the keyboard eventually prints the whole summary and
\* returns, whatever the outcomes of its jobs.
C11_SummaryEventuallyPrinted ==
  /\ [](InPool => summary = NoSummary)
  /\ (InPool /\ submitted >= 1) ~>
       \/ main_pc = "menu" /\ SummaryPrinted /\ raised = "none"
       \/ main_pc = "exited" /\ raised = "KeyboardInterrupt"

\* C11 witness: a run in which every job failed has printed its summary.
C11_Witness ==
  /\ RunReturned /\ submitted >= 1
  /\ SummaryPrinted
  /\ stats.failed_files - stats_at_start.failed_files = submitted

\* C12: a bar is closed exactly when process_video has returned, and a closed
\* bar stands at exactly 100, on the success, the warning and the error
\* outcome.
C12_ClosedAtExactly100 ==
  \A j \in DOMAIN jobs :
    /\ jobs[j].closed <=> j \in Returned
    /\ jobs[j].closed => jobs[j].n = 100

\* C12 witness: the bar of a job whose detection raised and the bar of a job
\* without scenes are both closed at 100.
C12_Witness ==
  \E i, j \in Returned :
    /\ jobs[i].threw /\ i \notin split_calls /\ jobs[i].closed /\ jobs[i].n = 100
    /\ ~jobs[j].threw /\ jobs[j].scenes = 0 /\ jobs[j].closed /\ jobs[j].n = 100

\* C13 (as claimed): the progress value of every job lies in 0..100 in every
\* state, so a job without scenes never shows a value above 100.
C13_ProgressWithin100 ==
  \A j \in DOMAIN jobs : 0 <= jobs[j].n /\ jobs[j].n <= 100

\* C14 (as claimed): at the start of every batch run the counters of
\* self.stats are 0 and its two lists are empty.
C14_StatsFreshEachRun ==
  executor_created => stats_at_start = InitStats

\* The last call came to line 330 and called _save_statistics.
SaveAttempted == export # NoExport /\ export.outcome \in SaveOutcomes

\* C15: the statistics are saved only when save_stats is set and only after
\* the whole summary was printed; when the write fails the call still returns
\* to the menu without an exception, the process does not exit, and the
\* counters and records are those the summary was printed from.
C15_ExportOnlyWhenEnabled ==
  /\ export # NoExport =>
       /\ SummaryPrinted
       /\ main_pc = "menu" /\ raised = "none"
       /\ export.save_stats = "no" => export.outcome = "skipped"
  /\ SaveAttempted =>
       /\ export.save_stats = "True"
       /\ summary.total_files = stats.total_files_processed
       /\ summary.total_scenes = stats.total_scenes_detected
       /\ summary.failed_files = stats.failed_files
       /\ Len(stats.files_processed) = stats.total_files_processed
  /\ main_pc = "exited" => export = NoExport

\* C15 witness: the write of the statistics failed after a run with a job,
\* and the program is back in the menu.
C15_Witness ==
  /\ export # NoExport /\ export.outcome = "failed"
  /\ RunReturned /\ submitted >= 1
  /\ raised = "none"

\* C16 (as claimed): after a shutdown request no job that has not started
\* executing is dispatched.
C16_NoDispatchAfterInterrupt ==
  [][ main_pc = "shutdown" =>
        \A j \in DOMAIN jobs : jobs[j].pc = "queued" => jobs'[j].pc = "queued" ]_vars

RECURSIVE SumOver(_, _)
SumOver(S, f) ==
  IF S = {} THEN 0
  ELSE LET x == CHOOSE y \in S : TRUE IN f[x] + SumOver(S \ {x}, f)

\* C17: stats_lock is held exactly while one result is between lines 130
\* and 138; whenever it is free, total_files_processed equals
\* len(files_processed), and no update of a recorded result is lost: every
\* counter and list of self.stats has grown by exactly the contributions of
\* the results recorded in the run, in any order of completion.
C17_UpdateStatsAtomic ==
  /\ stats_lock \in {"free", "main"}
  /\ stats_lock = "main" <=> \E j \in DOMAIN jobs : jobs[j].pc = "recording"
  /\ Cardinality({ j \in DOMAIN jobs : jobs[j].pc = "recording" }) <= 1
  /\ stats_lock = "free" =>
       /\ stats.total_files_processed = Len(stats.files_processed)
       /\ InPool =>
            /\ stats.total_files_processed - stats_at_start.total_files_processed
                 = Cardinality(Recorded)
            /\ Len(RunRecords) = Cardinality(Recorded)
            /\ Len(RunTimes) = Cardinality({ j \in Recorded : ~jobs[j].threw })
            /\ stats.failed_files - stats_at_start.failed_files
                 = Cardinality({ j \in Recorded : jobs[j].threw })
            /\ stats.total_scenes_detected - stats_at_start.total_scenes_detected
                 = SumOver(Recorded, [j \in Recorded |->
                             jobs[j].file_stats.scenes_detected])

\* C17 witness: stats_lock is held for the result of one job, whose record is
\* appended and not yet counted, while another job is still executing.
C17_Witness ==
  /\ stats_lock = "main"
  /\ \E i, j \in DOMAIN jobs :
       /\ jobs[i].pc = "recording"
       /\ jobs[j].pc \in {"split", "finally"}
  /\ Len(stats.files_processed) = stats.total_files_processed + 1

\* C18 (as claimed): every change a worker makes to its bar -- the creation,
\* every advance, the last step to 100 and the close -- is made while
\* holding self.progress_lock.
C18_ProgressUnderLock ==
  \A j \in DOMAIN jobs : jobs[j].bare = {}

\* C19 (as claimed): a record is appended only for a job whose bar is closed
\* at 100, and the records of the run stand in the order in which their jobs
\* finished: the i-th record of the run is the result of the i-th job to
\* finish.
C19_RecordsInCompletionOrder ==
  InPool =>
    /\ \A j \in Appended : jobs[j].closed /\ jobs[j].n = 100
    /\ \A i \in DOMAIN RunRecords :
         RunRecords[i] = jobs[completed[i]].ret.file_stats

\* C20 (as claimed): in every reachable state len(processing_times) +
\* failed_files equals total_files_processed, and failed_files is at most
\* total_files_processed.
C20_InEveryState ==
  /\ Len(stats.processing_times) + stats.failed_files = stats.total_files_processed
  /\ stats.failed_files <= stats.total_files_processed

\* C20 (amended): in every reachable state in which no _update_stats call
\* is between its first and its last update (stats_lock is free),
\* len(processing_times) + failed_files equals total_files_processed and
\* failed_files is at most total_files_processed.
C20_OutsideUpdate ==
  stats_lock = "free" =>
    /\ Len(stats.processing_times) + stats.failed_files = stats.total_files_processed
    /\ stats.failed_files <= stats.total_files_processed

\* C20 witness: with the lock free, a failed result and a result with a
\* duration are both recorded.
C20_Witness ==
  /\ stats_lock = "free"
  /\ stats.failed_files >= 1
  /\ Len(stats.processing_times) >= 1
  /\ stats.total_files_processed = 2

\* The call in progress was given the empty list as selected_indices.
EmptyListGiven == call.selected_indices.given /\ call.selected_indices.idx = <<>>

\* C21: a process_folder call given an empty selection list submits every
\* video file of the folder, in listing order, as a call without selection
\* does: the batch is not empty.
C21_EmptyListIsNoSelection ==
  (InPool /\ EmptyListGiven) =>
    /\ JobFiles = SelectSeq(call.folder, Allowed)
    /\ submitted = Cardinality({ i \in DOMAIN call.folder : Allowed(call.folder[i]) })
    /\ submitted >= 1

\* C21 witness: a call given the empty list runs both videos of a folder
\* that also holds a file that is no video.
C21_Witness ==
  /\ InPool /\ EmptyListGiven
  /\ Len(jobs) = 2
  /\ \E i \in DOMAIN call.folder : ~Allowed(call.folder[i])

\* C22: a step of "Process single video file" -- the only kind of step that
\* ends with single other than "none" -- leaves self.stats as it was, on
\* every outcome of process_video and on a rejected path; and the counters
\* and lists of self.stats still agree after it.
C22_SingleFileLeavesStats ==
  /\ [][ single' # "none" => stats' = stats ]_vars
  /\ [](single # "none" =>
         /\ main_pc = "menu"
         /\ stats.total_files_processed = Len(stats.files_processed))

\* C22 witness: a single video was processed with success after a batch run
\* had recorded a file.
C22_Witness ==
  /\ single = "success"
  /\ stats.total_files_processed >= 1
  /\ main_pc = "menu"

====
